---------------------------- MODULE Spec2Model ----------------------------
(***************************************************************************)
(* The two scripts of oak-drone-system as state machines.                  *)
(*                                                                         *)
(*   src/streaming/stream_rtp_h264.py  ("relay"):  main() pulls H.264      *)
(*       packets from the device queue and writes them to the stdin pipe   *)
(*       of a gst-launch-1.0 subprocess.                                   *)
(*   src/camera/view_rgb.py            ("viewer"): main() pulls RGB frames *)
(*       from the device queue, shows them, and saves snapshots / video    *)
(*       on keypress.                                                      *)
(*                                                                         *)
(* A behaviour is one run of one script: Init chooses `prog`, and the      *)
(* variables of the other script keep their initial values.                *)
(***************************************************************************)
EXTENDS Integers, Sequences, FiniteSets

\* ------------------------------------------------------------------ bounds
MaxFrames   == 4    \* packets the relay's device produces in a run
MaxFrameLen == 2    \* size of a packet's data, in pipe units
PipeCap     == 2    \* capacity of the kernel pipe to gst's stdin, in units
MaxSignals  == 2    \* SIGINT/SIGTERM deliveries in a run
VMaxFrames  == 6    \* frames the viewer's device produces in a run
MaxCommands == 3    \* 'c' and 'r' keypresses in a run
MaxTick     == 3    \* the clock stops advancing at this tick
TicksPerSecond == 2 \* clock ticks in one second of wall time

\* ------------------------------------------------------- program constants
H264QueueSize == 30  \* stream_rtp_h264.py:127  maxSize=30 (blocking=True)
RgbQueueSize  == 4   \* view_rgb.py:36           maxSize=4  (blocking=False)
ord_q == 113         \* view_rgb.py:64           ord('q')
ord_c == 99          \* view_rgb.py:66           ord('c')
ord_r == 114         \* view_rgb.py:68           ord('r')

VARIABLES
    prog,         \* which script this run executes: "relay" or "viewer"
    \* ---- stream_rtp_h264.py main()
    pc,           \* position of main()
    stop,         \* stop = {"flag": False}
    sigPending,   \* a SIGINT/SIGTERM was delivered, its Python handler not yet run
    signals,      \* number of signals delivered so far
    deviceOpen,   \* inside `with dai.Device(pipeline) as device`
    q,            \* the "h264" output queue: packets produced, not yet pulled
    produced,     \* packets the device has produced (sequence numbers 1..produced)
    pkt,          \* the packet of the current iteration (NoPkt before the first)
    wr,           \* units of pkt's data the current write call has put in the pipe
    pipe,         \* units in the pipe that gst has not read yet
    gstAlive,     \* the gst-launch-1.0 subprocess is running (holds the read end)
    stdinClosed,  \* gst.stdin.close() was called
    terminated,   \* gst.terminate() was called
    result,       \* how main() ends: "none", "ret0", "ret4", "raise"
    stderr,       \* what main() printed to sys.stderr
    \* ---- history of the run (what the sink and the source saw)
    pulled,       \* packets pulled from q, in order
    written,      \* units put in the pipe, in order, each tagged with its packet
    writeCalls,   \* calls of gst.stdin.write
    brokenPipes,  \* calls of gst.stdin.write that raised BrokenPipeError
    afterStop,    \* packets pulled while stop["flag"] was already True
    lateWrites,   \* packets a write put units of in the pipe, or was called
                  \* for, while stop["flag"] was already True
    \* ---- view_rgb.py main()
    vpc,            \* position of main()
    now,            \* the wall clock, in ticks
    rgb_queue,      \* the "rgb" output queue: frames produced, not yet pulled
    vproduced,      \* frames the device has produced (sequence numbers)
    frame,          \* frame = in_rgb.getCvFrame() of the current iteration
    key,            \* key = cv2.waitKey(1) & 0xFF
    out,            \* the cv2.VideoWriter: None, or the index of the writer
    video_filename, \* computed once, before the loop
    printed,        \* what main() and capture_image() printed
    \* ---- history of the run
    burst,          \* frames produced since the loop last pulled one
    evicted,        \* frames the queue dropped since the loop last pulled one
    writers,        \* every cv2.VideoWriter created, in order
    snapshots,      \* every cv2.imwrite of capture_image, in order
    images          \* the files under data/images: name -> frame

relayVars == <<pc, stop, sigPending, signals, deviceOpen, q, produced, pkt, wr,
               pipe, gstAlive, stdinClosed, terminated, result, stderr,
               pulled, written, writeCalls, brokenPipes, afterStop, lateWrites>>

viewerVars == <<vpc, now, rgb_queue, vproduced, frame, key, out,
                video_filename, printed, burst, evicted, writers, snapshots,
                images>>

vars == <<prog, relayVars, viewerVars>>

NoPkt == [seq |-> 0, len |-> 0]

Min(a, b) == IF a < b THEN a ELSE b

\* n copies of x
Repeat(x, n) == [i \in 1..n |-> x]

\* ======================================================================
\* stream_rtp_h264.py
\* ======================================================================

\* A step of the relay: the viewer is not running.
InRelay == prog = "relay" /\ UNCHANGED <<prog, viewerVars>>

RelayInit ==
    /\ pc = "open"
    /\ stop = [flag |-> FALSE]
    /\ sigPending = FALSE
    /\ signals = 0
    /\ deviceOpen = FALSE
    /\ q = <<>>
    /\ produced = 0
    /\ pkt = NoPkt
    /\ wr = 0
    /\ pipe = 0
    /\ gstAlive = TRUE
    /\ stdinClosed = FALSE
    /\ terminated = FALSE
    /\ result = "none"
    /\ stderr = <<>>
    /\ pulled = <<>>
    /\ written = <<>>
    /\ writeCalls = 0
    /\ brokenPipes = 0
    /\ afterStop = 0
    /\ lateWrites = {}

\* The kernel delivers SIGINT or SIGTERM to the process (lines 122-123 install
\* the same Python handler for both).  CPython only notes the signal; the
\* Python handler runs later, in the main thread.  (A signal that finds
\* write(2) asleep after a partial transfer is StdinWriteInterrupted.)
Signal ==
    /\ InRelay
    /\ pc # "done"
    /\ ~(pc = "write_blocked" /\ wr > 0 /\ pipe = PipeCap)
    /\ signals < MaxSignals
    /\ signals' = signals + 1
    /\ sigPending' = TRUE
    /\ UNCHANGED <<pc, stop, deviceOpen, q, produced, pkt, wr, pipe, gstAlive,
                   stdinClosed, terminated, result, stderr, pulled, written,
                   writeCalls, brokenPipes, afterStop, lateWrites>>

\* def handle_sigint(_sig, _frame): stop["flag"] = True
\* It runs between two bytecodes of main(), or when a write(2) that has
\* transferred nothing returns EINTR (the write is then retried).  It does not
\* run inside a write that has already transferred part of its data.
handle_sigint ==
    /\ InRelay
    /\ sigPending
    /\ pc # "done"
    /\ ~(pc = "write_blocked" /\ wr > 0)
    /\ stop' = [stop EXCEPT !.flag = TRUE]
    /\ sigPending' = FALSE
    /\ UNCHANGED <<pc, signals, deviceOpen, q, produced, pkt, wr, pipe, gstAlive,
                   stdinClosed, terminated, result, stderr, pulled, written,
                   writeCalls, brokenPipes, afterStop, lateWrites>>

\* with dai.Device(pipeline) as device: q = device.getOutputQueue(...)
DeviceOpen ==
    /\ InRelay
    /\ pc = "open"
    /\ deviceOpen' = TRUE
    /\ pc' = "check"
    /\ UNCHANGED <<stop, sigPending, signals, q, produced, pkt, wr, pipe,
                   gstAlive, stdinClosed, terminated, result, stderr, pulled,
                   written, writeCalls, brokenPipes, afterStop, lateWrites>>

\* dai.Device(pipeline) raises (no device): the try block is left at once.
DeviceOpenError ==
    /\ InRelay
    /\ pc = "open"
    /\ result' = "raise"
    /\ pc' = "close_stdin"
    /\ UNCHANGED <<stop, sigPending, signals, deviceOpen, q, produced, pkt, wr,
                   pipe, gstAlive, stdinClosed, terminated, stderr, pulled,
                   written, writeCalls, brokenPipes, afterStop, lateWrites>>

\* The device puts an encoded packet on the queue.  blocking=True: when the
\* queue holds maxSize packets the device waits, nothing is dropped.
DeviceProduce ==
    /\ InRelay
    /\ deviceOpen
    /\ produced < MaxFrames
    /\ Len(q) < H264QueueSize
    /\ \E n \in 1..MaxFrameLen :
          q' = Append(q, [seq |-> produced + 1, len |-> n])
    /\ produced' = produced + 1
    /\ UNCHANGED <<pc, stop, sigPending, signals, deviceOpen, pkt, wr, pipe,
                   gstAlive, stdinClosed, terminated, result, stderr, pulled,
                   written, writeCalls, brokenPipes, afterStop, lateWrites>>

\* LoopCheck as it would be if the loop drained the queue before honouring
\* the flag.
LoopCheck_DrainFirst ==
    /\ InRelay
    /\ pc = "check"
    /\ ~sigPending
    /\ pc' = IF stop.flag /\ q = <<>> THEN "exit_with" ELSE "get"
    /\ UNCHANGED <<stop, sigPending, signals, deviceOpen, q, produced, pkt, wr,
                   pipe, gstAlive, stdinClosed, terminated, result, stderr,
                   pulled, written, writeCalls, brokenPipes, afterStop, lateWrites>>

\* while not stop["flag"]:
\* Pending handlers run on the loop's backward jump, before the test.
LoopCheck ==
    /\ InRelay
    /\ pc = "check"
    /\ ~sigPending
    /\ pc' = IF stop.flag THEN "exit_with" ELSE "get"
    /\ UNCHANGED <<stop, sigPending, signals, deviceOpen, q, produced, pkt, wr,
                   pipe, gstAlive, stdinClosed, terminated, result, stderr,
                   pulled, written, writeCalls, brokenPipes, afterStop, lateWrites>>

\* QGet as it would be if a separate context pulled from the queue while the
\* write of the previous packet is still blocked.
QGet_Decoupled ==
    /\ InRelay
    /\ pc \in {"get", "write_blocked"}
    /\ q # <<>>
    /\ q' = Tail(q)
    /\ pulled' = Append(pulled, Head(q))
    /\ afterStop' = afterStop + (IF stop.flag THEN 1 ELSE 0)
    /\ IF pc = "get"
       THEN /\ pkt' = Head(q)
            /\ wr' = 0
            /\ pc' = "write_call"
       ELSE UNCHANGED <<pkt, wr, pc>>
    /\ UNCHANGED <<stop, sigPending, signals, deviceOpen, produced, pipe,
                   gstAlive, stdinClosed, terminated, result, stderr, written,
                   writeCalls, brokenPipes, lateWrites>>

\* pkt = q.get(); data = pkt.getData()      (blocks while the queue is empty)
QGet ==
    /\ InRelay
    /\ pc = "get"
    /\ q # <<>>
    /\ pkt' = Head(q)
    /\ q' = Tail(q)
    /\ pulled' = Append(pulled, Head(q))
    /\ afterStop' = afterStop + (IF stop.flag THEN 1 ELSE 0)
    /\ wr' = 0
    /\ pc' = "write_call"
    /\ UNCHANGED <<stop, sigPending, signals, deviceOpen, produced, pipe,
                   gstAlive, stdinClosed, terminated, result, stderr, written,
                   writeCalls, brokenPipes, lateWrites>>

\* q.get() raises (device disconnected): the exception leaves the loop.
QGetError ==
    /\ InRelay
    /\ pc = "get"
    /\ result' = "raise"
    /\ pc' = "exit_with"
    /\ UNCHANGED <<stop, sigPending, signals, deviceOpen, q, produced, pkt, wr,
                   pipe, gstAlive, stdinClosed, terminated, stderr, pulled,
                   written, writeCalls, brokenPipes, afterStop, lateWrites>>

\* One pass of write(2) on the pipe for the current packet, `done` units of it
\* being in the pipe already.  gst.stdin is unbuffered (bufsize=0), so
\* gst.stdin.write(data) is one write(2) and returns the count it transferred:
\*   - no reader and nothing transferred: EPIPE, BrokenPipeError;
\*   - no reader after a partial transfer: the partial count is returned;
\*   - otherwise what fits is transferred; the call returns when all of data
\*     is in the pipe and sleeps while the pipe is full.
\* main() discards the returned count.
PipeTransfer(done) ==
    IF ~gstAlive
    THEN /\ IF done = 0
            THEN /\ brokenPipes' = brokenPipes + 1
                 /\ pc' = "broken_pipe"
            ELSE /\ pc' = "check"
                 /\ UNCHANGED brokenPipes
         /\ UNCHANGED <<wr, pipe, written>>
    ELSE LET n == Min(PipeCap - pipe, pkt.len - done) IN
         /\ pipe' = pipe + n
         /\ written' = written \o Repeat(pkt.seq, n)
         /\ wr' = done + n
         /\ pc' = IF done + n = pkt.len THEN "check" ELSE "write_blocked"
         /\ UNCHANGED brokenPipes

\* gst.stdin.write(data)
StdinWrite ==
    /\ InRelay
    /\ pc = "write_call"
    /\ writeCalls' = writeCalls + 1
    /\ lateWrites' = IF stop.flag THEN lateWrites \cup {pkt.seq} ELSE lateWrites
    /\ PipeTransfer(0)
    /\ UNCHANGED <<stop, sigPending, signals, deviceOpen, q, produced, pkt,
                   gstAlive, stdinClosed, terminated, result, stderr, pulled,
                   afterStop>>

\* The sleeping write(2) is woken: gst read from the pipe, or gst exited.
StdinWriteResume ==
    /\ InRelay
    /\ pc = "write_blocked"
    /\ (~gstAlive \/ pipe < PipeCap)
    /\ lateWrites' = IF stop.flag THEN lateWrites \cup {pkt.seq} ELSE lateWrites
    /\ PipeTransfer(wr)
    /\ UNCHANGED <<stop, sigPending, signals, deviceOpen, q, produced, pkt,
                   gstAlive, stdinClosed, terminated, result, stderr, pulled,
                   writeCalls, afterStop>>

\* SIGINT or SIGTERM arrives while write(2) sleeps on the full pipe after a
\* partial transfer: write(2) returns the partial count, gst.stdin.write
\* returns it, and the rest of data is never written.
StdinWriteInterrupted ==
    /\ InRelay
    /\ pc = "write_blocked"
    /\ wr > 0
    /\ pipe = PipeCap
    /\ signals < MaxSignals
    /\ signals' = signals + 1
    /\ sigPending' = TRUE
    /\ pc' = "check"
    /\ UNCHANGED <<stop, deviceOpen, q, produced, pkt, wr, pipe, gstAlive,
                   stdinClosed, terminated, result, stderr, pulled, written,
                   writeCalls, brokenPipes, afterStop, lateWrites>>

\* BrokenPipeReturn as it would be if the handler reported the failure and
\* went on with the loop (`continue` in place of `return 4`).
BrokenPipeReturn_Continue ==
    /\ InRelay
    /\ pc = "broken_pipe"
    /\ stderr' = Append(stderr, "ERROR: GStreamer pipeline terminated (BrokenPipe).")
    /\ pc' = "check"
    /\ UNCHANGED <<stop, sigPending, signals, deviceOpen, q, produced, pkt, wr,
                   pipe, gstAlive, stdinClosed, terminated, result, pulled,
                   written, writeCalls, brokenPipes, afterStop, lateWrites>>

\* BrokenPipeReturn as it would be if the handler reported the failure and
\* tried the same write again.
BrokenPipeReturn_Retry ==
    /\ InRelay
    /\ pc = "broken_pipe"
    /\ Len(stderr) < MaxFrames
    /\ stderr' = Append(stderr, "ERROR: GStreamer pipeline terminated (BrokenPipe).")
    /\ pc' = "write_call"
    /\ UNCHANGED <<stop, sigPending, signals, deviceOpen, q, produced, pkt, wr,
                   pipe, gstAlive, stdinClosed, terminated, result, pulled,
                   written, writeCalls, brokenPipes, afterStop, lateWrites>>

\* except BrokenPipeError: read gst's stderr, print the error, return 4
BrokenPipeReturn ==
    /\ InRelay
    /\ pc = "broken_pipe"
    /\ stderr' = Append(stderr, "ERROR: GStreamer pipeline terminated (BrokenPipe).")
    /\ result' = "ret4"
    /\ pc' = "exit_with"
    /\ UNCHANGED <<stop, sigPending, signals, deviceOpen, q, produced, pkt, wr,
                   pipe, gstAlive, stdinClosed, terminated, pulled, written,
                   writeCalls, brokenPipes, afterStop, lateWrites>>

\* Leaving `with dai.Device(pipeline) as device` closes the device.
ExitWith ==
    /\ InRelay
    /\ pc = "exit_with"
    /\ deviceOpen' = FALSE
    /\ pc' = "close_stdin"
    /\ UNCHANGED <<stop, sigPending, signals, q, produced, pkt, wr, pipe,
                   gstAlive, stdinClosed, terminated, result, stderr, pulled,
                   written, writeCalls, brokenPipes, afterStop, lateWrites>>

\* FinallyClose as it would be if the finally block asked gst to terminate
\* first and never closed its stdin.
FinallyClose_TerminateFirst ==
    /\ InRelay
    /\ pc = "close_stdin"
    /\ terminated' = TRUE
    /\ gstAlive' = FALSE
    /\ pc' = "terminate"
    /\ UNCHANGED <<stop, sigPending, signals, deviceOpen, q, produced, pkt, wr,
                   pipe, stdinClosed, result, stderr, pulled, written,
                   writeCalls, brokenPipes, afterStop, lateWrites>>

\* finally: gst.stdin.close()
FinallyClose ==
    /\ InRelay
    /\ pc = "close_stdin"
    /\ stdinClosed' = TRUE
    /\ pc' = "terminate"
    /\ UNCHANGED <<stop, sigPending, signals, deviceOpen, q, produced, pkt, wr,
                   pipe, gstAlive, terminated, result, stderr, pulled, written,
                   writeCalls, brokenPipes, afterStop, lateWrites>>

\* finally: gst.terminate(); then print("[OK] Stopped."); return 0 unless a
\* return value or an exception is already on its way out.
FinallyTerminate ==
    /\ InRelay
    /\ pc = "terminate"
    /\ terminated' = TRUE
    /\ gstAlive' = FALSE
    /\ result' = IF result = "none" THEN "ret0" ELSE result
    /\ pc' = "done"
    /\ UNCHANGED <<stop, sigPending, signals, deviceOpen, q, produced, pkt, wr,
                   pipe, stdinClosed, stderr, pulled, written, writeCalls,
                   brokenPipes, afterStop, lateWrites>>

\* gst-launch-1.0 reads from its stdin (fdsrc fd=0).
GstRead ==
    /\ InRelay
    /\ gstAlive
    /\ pipe > 0
    /\ \E n \in 1..pipe : pipe' = pipe - n
    /\ UNCHANGED <<pc, stop, sigPending, signals, deviceOpen, q, produced, pkt,
                   wr, gstAlive, stdinClosed, terminated, result, stderr,
                   pulled, written, writeCalls, brokenPipes, afterStop, lateWrites>>

\* gst-launch-1.0 exits on its own (pipeline error, killed).
GstExit ==
    /\ InRelay
    /\ gstAlive
    /\ ~terminated
    /\ gstAlive' = FALSE
    /\ pipe' = 0
    /\ UNCHANGED <<pc, stop, sigPending, signals, deviceOpen, q, produced, pkt,
                   wr, stdinClosed, terminated, result, stderr, pulled, written,
                   writeCalls, brokenPipes, afterStop, lateWrites>>

\* ======================================================================
\* view_rgb.py
\* ======================================================================

\* A step of the viewer: the relay is not running.
InViewer == prog = "viewer" /\ UNCHANGED <<prog, relayVars>>

None == 0

NoFrame == 0

\* What cv2.waitKey(1) can return: -1 (no key within the wait), the code of
\* 'c', 'q', 'r', and the code of 'q' with a modifier bit above the low byte.
RawKeys == {-1, ord_c, ord_q, ord_r, 1048576 + ord_q}

\* datetime.now().strftime("%Y%m%d_%H%M%S"): the time to the whole second.
Strftime(t) == t \div TicksPerSecond

\* f"data/videos/{timestamp}_video.avi"
VideoName(t) == [dir |-> "data/videos", stamp |-> Strftime(t), tail |-> "_video.avi"]

\* f"data/images/{timestamp}.jpg"
ImageName(t) == [dir |-> "data/images", stamp |-> Strftime(t), tail |-> ".jpg"]

ViewerInit ==
    /\ vpc = "start"
    /\ now = 0
    /\ rgb_queue = <<>>
    /\ vproduced = 0
    /\ frame = NoFrame
    /\ key = 255
    /\ out = None
    /\ video_filename = [dir |-> "", stamp |-> 0, tail |-> ""]
    /\ printed = <<>>
    /\ burst = 0
    /\ evicted = 0
    /\ writers = <<>>
    /\ snapshots = <<>>
    /\ images = {}

\* The wall clock advances.
Tick ==
    /\ InViewer
    /\ vpc # "done"
    /\ now < MaxTick
    /\ now' = now + 1
    /\ UNCHANGED <<vpc, rgb_queue, vproduced, frame, key, out, video_filename,
                   printed, burst, evicted, writers, snapshots, images>>

\* Lines 33-51: open the device and the queue, compute video_filename from
\* the time now, out = None.
ViewerStart ==
    /\ InViewer
    /\ vpc = "start"
    /\ video_filename' = VideoName(now)
    /\ out' = None
    /\ printed' = Append(printed, "stream started")
    /\ vpc' = "get"
    /\ UNCHANGED <<now, rgb_queue, vproduced, frame, key, burst, evicted,
                   writers, snapshots, images>>

\* RgbProduce as it would be if a full queue refused the new frame.
RgbProduce_DropNewest ==
    /\ InViewer
    /\ vpc \notin {"start", "done"}
    /\ vproduced < VMaxFrames
    /\ vproduced' = vproduced + 1
    /\ burst' = burst + 1
    /\ IF Len(rgb_queue) < RgbQueueSize
       THEN /\ rgb_queue' = Append(rgb_queue, vproduced + 1)
            /\ UNCHANGED evicted
       ELSE /\ UNCHANGED rgb_queue
            /\ evicted' = evicted + 1
    /\ UNCHANGED <<vpc, now, frame, key, out, video_filename, printed, writers,
                   snapshots, images>>

\* The device puts a frame on the queue.  blocking=False: when the queue
\* holds maxSize frames the oldest one is removed to make room.
RgbProduce ==
    /\ InViewer
    /\ vpc \notin {"start", "done"}
    /\ vproduced < VMaxFrames
    /\ vproduced' = vproduced + 1
    /\ burst' = burst + 1
    /\ IF Len(rgb_queue) < RgbQueueSize
       THEN /\ rgb_queue' = Append(rgb_queue, vproduced + 1)
            /\ UNCHANGED evicted
       ELSE /\ rgb_queue' = Append(Tail(rgb_queue), vproduced + 1)
            /\ evicted' = evicted + 1
    /\ UNCHANGED <<vpc, now, frame, key, out, video_filename, printed, writers,
                   snapshots, images>>

\* in_rgb = rgb_queue.get(); frame = in_rgb.getCvFrame()
\* (get() waits while the queue is empty)
RgbGet ==
    /\ InViewer
    /\ vpc = "get"
    /\ rgb_queue # <<>>
    /\ frame' = Head(rgb_queue)
    /\ rgb_queue' = Tail(rgb_queue)
    /\ burst' = 0
    /\ evicted' = 0
    /\ vpc' = "show"
    /\ UNCHANGED <<now, vproduced, key, out, video_filename, printed, writers,
                   snapshots, images>>

\* cv2.imshow("OAK-D RGB", frame); key = cv2.waitKey(1) & 0xFF
ShowWaitKey ==
    /\ InViewer
    /\ vpc = "show"
    /\ \E raw \in RawKeys :
          /\ raw % 256 \in {ord_c, ord_r} => Len(printed) <= MaxCommands
          /\ key' = raw % 256
    /\ vpc' = "handle"
    /\ UNCHANGED <<now, rgb_queue, vproduced, frame, out, video_filename,
                   printed, burst, evicted, writers, snapshots, images>>

\* capture_image(frame): the file name comes from the time of the call;
\* cv2.imwrite replaces a file of that name.
capture_image(f) ==
    LET filename == ImageName(now) IN
    /\ images' = {im \in images : im.name # filename}
                    \cup {[name |-> filename, frame |-> f]}
    /\ snapshots' = Append(snapshots, [name |-> filename, frame |-> f, at |-> now])
    /\ printed' = Append(printed, "Image captured and saved")

\* ToggleRecording as it would be if stopping forgot `out = None`.
ToggleRecording_NoReset ==
    IF out = None
    THEN /\ writers' = Append(writers, [path |-> video_filename, opened |-> now,
                                        frames |-> <<>>, released |-> 0, late |-> 0])
         /\ out' = Len(writers) + 1
         /\ printed' = Append(printed, "Recording started")
    ELSE /\ writers' = [writers EXCEPT ![out].released = @ + 1]
         /\ UNCHANGED out
         /\ printed' = Append(printed, "Video saved")

\* ToggleRecording as it would be if each recording took a fresh file name
\* from the time it starts.
ToggleRecording_FreshName ==
    IF out = None
    THEN /\ writers' = Append(writers, [path |-> VideoName(now), opened |-> now,
                                        frames |-> <<>>, released |-> 0, late |-> 0])
         /\ out' = Len(writers) + 1
         /\ printed' = Append(printed, "Recording started")
    ELSE /\ writers' = [writers EXCEPT ![out].released = @ + 1]
         /\ out' = None
         /\ printed' = Append(printed, "Video saved")

\* if out is None: out = cv2.VideoWriter(video_filename, ...)
\* else:           out.release(); out = None
ToggleRecording ==
    IF out = None
    THEN /\ writers' = Append(writers, [path |-> video_filename, opened |-> now,
                                        frames |-> <<>>, released |-> 0, late |-> 0])
         /\ out' = Len(writers) + 1
         /\ printed' = Append(printed, "Recording started")
    ELSE /\ writers' = [writers EXCEPT ![out].released = @ + 1]
         /\ out' = None
         /\ printed' = Append(printed, "Video saved")

\* Lines 64-75: the three tests on key.
HandleKey ==
    /\ InViewer
    /\ vpc = "handle"
    /\ IF key = ord_q
       THEN /\ vpc' = "release"
            /\ UNCHANGED <<out, printed, writers, snapshots, images>>
       ELSE /\ vpc' = "record"
            /\ IF key = ord_c
               THEN /\ capture_image(frame)
                    /\ UNCHANGED <<out, writers>>
               ELSE IF key = ord_r
               THEN /\ ToggleRecording
                    /\ UNCHANGED <<snapshots, images>>
               ELSE UNCHANGED <<out, printed, writers, snapshots, images>>
    /\ UNCHANGED <<now, rgb_queue, vproduced, frame, key, video_filename, burst,
                   evicted>>

\* if out is not None: out.write(frame)
RecordWrite ==
    /\ InViewer
    /\ vpc = "record"
    /\ IF out # None
       THEN writers' = [writers EXCEPT
                           ![out].frames = Append(@, frame),
                           ![out].late = @ + (IF writers[out].released > 0 THEN 1 ELSE 0)]
       ELSE UNCHANGED writers
    /\ vpc' = "get"
    /\ UNCHANGED <<now, rgb_queue, vproduced, frame, key, out, video_filename,
                   printed, burst, evicted, snapshots, images>>

\* After the loop: if out is not None: out.release(); cv2.destroyAllWindows()
QuitRelease ==
    /\ InViewer
    /\ vpc = "release"
    /\ IF out # None
       THEN writers' = [writers EXCEPT ![out].released = @ + 1]
       ELSE UNCHANGED writers
    /\ vpc' = "done"
    /\ UNCHANGED <<now, rgb_queue, vproduced, frame, key, out, video_filename,
                   printed, burst, evicted, snapshots, images>>

\* ======================================================================
\* A run
\* ======================================================================

Init ==
    /\ prog \in {"relay", "viewer"}
    /\ RelayInit
    /\ ViewerInit

Next ==
    \/ Signal
    \/ handle_sigint
    \/ DeviceOpen
    \/ DeviceOpenError
    \/ DeviceProduce
    \/ LoopCheck
    \/ QGet
    \/ QGetError
    \/ StdinWrite
    \/ StdinWriteResume
    \/ StdinWriteInterrupted
    \/ BrokenPipeReturn
    \/ ExitWith
    \/ FinallyClose
    \/ FinallyTerminate
    \/ GstRead
    \/ GstExit
    \/ Tick
    \/ ViewerStart
    \/ RgbProduce
    \/ RgbGet
    \/ ShowWaitKey
    \/ HandleKey
    \/ RecordWrite
    \/ QuitRelease

Spec == Init /\ [][Next]_vars
\* ======================================================================
\* Properties of the relay
\* ======================================================================

\* main() is in its pull loop.
Running == deviceOpen /\ pc \in {"check", "get", "write_call", "write_blocked", "broken_pipe"}

\* The BrokenPipe reports on sys.stderr.
FailureReports ==
    {i \in DOMAIN stderr : stderr[i] = "ERROR: GStreamer pipeline terminated (BrokenPipe)."}

\* The units the pipe has received if every pulled packet went in whole,
\* once, in the order pulled.
RECURSIVE Flatten(_)
Flatten(ps) ==
    IF ps = <<>> THEN <<>>
    ELSE Repeat(Head(ps).seq, Head(ps).len) \o Flatten(Tail(ps))

\* C1 as stated: after a write to the pipe has failed with BrokenPipe the
\* session stays Running, the loop going on to pull further packets.
C1_LoopSurvivesBrokenPipe == brokenPipes > 0 => Running

\* C1 as amended: after a write to the pipe has failed with BrokenPipe no
\* further packet is pulled from the source queue, and main() ends returning 4.
C1_BrokenPipeEndsLoop ==
    /\ [][brokenPipes > 0 => pulled' = pulled]_vars
    /\ [](brokenPipes > 0 /\ pc = "done" => result = "ret4")

\* The relay ended with 4 after a BrokenPipe, packets still waiting in the queue.
C1_Witness ==
    /\ pc = "done"
    /\ brokenPipes = 1
    /\ result = "ret4"
    /\ q # <<>>

\* C2: at most one BrokenPipe report is emitted in a run, at most one write
\* raises BrokenPipe, and once a write has raised BrokenPipe gst.stdin.write
\* is not called again and nothing more enters the pipe.
C2_ReportedOnceNeverOfferedAgain ==
    /\ [](Cardinality(FailureReports) <= 1 /\ brokenPipes <= 1)
    /\ [][brokenPipes > 0 => writeCalls' = writeCalls /\ written' = written]_vars

\* The failure was reported while the source still had packets to offer.
C2_Witness ==
    /\ Cardinality(FailureReports) = 1
    /\ brokenPipes = 1
    /\ pc = "exit_with"
    /\ Len(q) >= 2

\* C3: on every way the relay ends, the device is closed (pulling has
\* stopped) before gst's stdin is closed; once the close has happened no
\* packet is pulled and no write is called or transfers anything; and
\* terminate is requested only after the close.
C3_ShutdownOrder ==
    /\ [](stdinClosed => ~deviceOpen /\ pc \in {"terminate", "done"})
    /\ [](terminated => stdinClosed)
    /\ [][stdinClosed => pulled' = pulled /\ writeCalls' = writeCalls
                         /\ written' = written]_vars

\* The relay shut down after relaying packets, with packets still in the
\* queue when stdin was closed and terminate was requested.
C3_Witness ==
    /\ pc = "done"
    /\ stdinClosed
    /\ terminated
    /\ pulled # <<>>
    /\ q # <<>>

\* C4: the handler changes nothing but the stop flag; the loop enters the
\* next pull only with the flag clear; and after the flag was set at most
\* one packet is pulled and at most one packet is written.
C4_CooperativeCancel ==
    /\ [](afterStop <= 1 /\ Cardinality(lateWrites) <= 1)
    /\ [][stop' # stop =>
            /\ stop'.flag
            /\ UNCHANGED <<pc, deviceOpen, q, produced, pkt, wr, pipe, gstAlive,
                           stdinClosed, terminated, result, stderr, pulled,
                           written, writeCalls, brokenPipes>>]_vars
    /\ [][pc = "check" /\ pc' = "get" => ~stop.flag]_vars

\* The flag was set while the loop waited in q.get(): one packet was pulled
\* and written after it, and the relay then stopped normally.
C4_Witness ==
    /\ pc = "done"
    /\ result = "ret0"
    /\ afterStop = 1
    /\ lateWrites = {pulled[Len(pulled)].seq}
    /\ q # <<>>

\* C5 as stated: while the sink is healthy, whenever no write is in
\* progress the pipe has received every pulled packet whole, once, in order.
C5_AllFramesInFull ==
    (gstAlive /\ brokenPipes = 0 /\ pc \notin {"write_call", "write_blocked"})
        => written = Flatten(pulled)

\* C6 as stated: a stalled delivery does not delay the next pull: with the
\* pipe write blocked (relay), or display / file delivery of the current
\* frame not yet done (viewer), a waiting frame can be pulled.
C6_PullNeverWaitsForDelivery ==
    /\ (pc = "write_blocked" /\ gstAlive /\ q # <<>>) => ENABLED QGet
    /\ (vpc \in {"show", "handle", "record"} /\ rgb_queue # <<>>) => ENABLED RgbGet

\* C6 as amended: delivery runs inline in the pull loop of both scripts, so
\* while a delivery is pending or stalled no further frame can be pulled.
C6_PullWaitsForDelivery ==
    /\ pc \in {"write_call", "write_blocked", "broken_pipe"} => ~ENABLED QGet
    /\ vpc \in {"show", "handle", "record"} => ~ENABLED RgbGet

\* The pipe write is stalled on a full pipe, gst alive, no stop requested,
\* and a packet waits in the source queue.
C6_Witness ==
    /\ pc = "write_blocked"
    /\ pipe = PipeCap
    /\ gstAlive
    /\ ~stop.flag
    /\ ~sigPending
    /\ q # <<>>

\* ======================================================================
\* Properties of the viewer
\* ======================================================================

\* The k most recent frames the device produced, oldest first.
MostRecent(k) == [i \in 1..k |-> vproduced - k + i]

\* Drop reports among what the viewer printed.
DropsReported == Cardinality({i \in DOMAIN printed : printed[i] = "Frames dropped"})

\* C7 as stated: after a burst of M > K frames the queue holds the K most
\* recent frames and the viewer reports M - K drops.
C7_DropOldestCounted ==
    burst > RgbQueueSize =>
        /\ rgb_queue = MostRecent(RgbQueueSize)
        /\ DropsReported = burst - RgbQueueSize

\* C7 as amended: the queue never holds more than K frames; after a burst of
\* M > K frames it holds exactly the K most recent ones, at least M - K
\* frames having been dropped; the viewer reports no drop.
C7_DropOldestSilent ==
    /\ Len(rgb_queue) <= RgbQueueSize
    /\ burst > RgbQueueSize =>
          /\ rgb_queue = MostRecent(RgbQueueSize)
          /\ evicted >= burst - RgbQueueSize
          /\ DropsReported = 0

\* Five frames arrived before the first pull: frame 1 was dropped.
C7_Witness ==
    /\ burst = RgbQueueSize + 1
    /\ evicted = 1
    /\ rgb_queue = <<2, 3, 4, 5>>

\* C8 as stated: any two snapshots of a run have different file names.
C8_SnapshotNamesUnique ==
    \A i, j \in DOMAIN snapshots : i # j => snapshots[i].name # snapshots[j].name

\* The writers that have not been released.
OpenWriters == {i \in DOMAIN writers : writers[i].released = 0}

\* C9: 'r' alternates between idle and recording; at most one writer is open
\* at any time, and it is `out`; a frame is written only to the open writer;
\* no writer is released twice or written after its release; and after Quit
\* every writer that was started has been released exactly once.
C9_RecordingLifecycle ==
    /\ [](/\ Cardinality(OpenWriters) <= 1
          /\ vpc # "done" => OpenWriters = (IF out = None THEN {} ELSE {out})
          /\ \A i \in DOMAIN writers : writers[i].released <= 1 /\ writers[i].late = 0
          /\ vpc = "done" => \A i \in DOMAIN writers : writers[i].released = 1)
    /\ [][(vpc = "handle" /\ key = ord_r /\ vpc' # vpc) => ((out' = None) # (out = None))]_vars
    /\ [][\A i \in DOMAIN writers :
             writers'[i].frames # writers[i].frames =>
                 /\ i = out
                 /\ writers[i].released = 0
                 /\ writers'[i].frames = Append(writers[i].frames, frame)]_vars

\* Two recordings in one run, with frames in the first; the first finalized
\* by 'r', the second by Quit.
C9_Witness ==
    /\ vpc = "done"
    /\ Len(writers) = 2
    /\ out = 2
    /\ writers[1].frames # <<>>
    /\ writers[2].frames # <<>>
    /\ writers[1].released = 1
    /\ writers[2].released = 1

\* C10: video_filename does not change once computed, and every writer of
\* the run is opened on it.
C10_OneRecordingPath ==
    /\ [](\A i \in DOMAIN writers : writers[i].path = video_filename)
    /\ [][vpc # "start" => video_filename' = video_filename]_vars

\* A second recording, started in a later second than the one the name was
\* computed in, opened the path of the first.
C10_Witness ==
    /\ Len(writers) = 2
    /\ writers[2].path = writers[1].path
    /\ Strftime(writers[2].opened) # video_filename.stamp
    /\ Strftime(writers[1].opened) = video_filename.stamp
=============================================================================
